---- MODULE Spec2Model ----
(***************************************************************************)
(* Model of go.py (src/lib/go.py), the directory-shortcut tool: the        *)
(* persisted shortcut store, the shortcut/sub-path resolution engine, the  *)
(* listing and the command-line front end.                                 *)
(*                                                                         *)
(* A Python string is modelled as a sequence of one-character strings, so  *)
(* that prefixes, separators and glob patterns are computed, not assumed.  *)
(* os.path is the POSIX flavour (posixpath); the file system is a fixed    *)
(* tree of directories and files.                                          *)
(***************************************************************************)
EXTENDS Integers, Sequences, FiniteSets, TLC

\* ---------------------------------------------------------------------
\* Strings
\* ---------------------------------------------------------------------

Empty == <<>>

StartsWith(s, p) == Len(p) <= Len(s) /\ SubSeq(s, 1, Len(p)) = p

EndsWith(s, p) == Len(p) <= Len(s) /\ SubSeq(s, Len(s) - Len(p) + 1, Len(s)) = p

\* s[n:] with a 0-based Python index n
From(s, n) == IF n >= Len(s) THEN <<>> ELSE SubSeq(s, n + 1, Len(s))

\* s[:n] with a 0-based Python index n
UpTo(s, n) == IF n <= 0 THEN <<>> ELSE SubSeq(s, 1, IF n > Len(s) THEN Len(s) ELSE n)

\* str.find(c) for a one-character c: 0-based index of the first c, or -1
Find(s, c) ==
    IF \E i \in 1..Len(s) : s[i] = c
    THEN (CHOOSE i \in 1..Len(s) : s[i] = c /\ \A j \in 1..(i - 1) : s[j] # c) - 1
    ELSE -1

\* str.rfind(c) for a one-character c: 0-based index of the last c, or -1
RFind(s, c) ==
    IF \E i \in 1..Len(s) : s[i] = c
    THEN (CHOOSE i \in 1..Len(s) : s[i] = c /\ \A j \in (i + 1)..Len(s) : s[j] # c) - 1
    ELSE -1

\* str.rstrip(c)
RECURSIVE RStrip(_, _)
RStrip(s, c) ==
    IF Len(s) > 0 /\ s[Len(s)] = c THEN RStrip(SubSeq(s, 1, Len(s) - 1), c) ELSE s

\* str.split(c): the pieces between the occurrences of c
RECURSIVE SplitOn(_, _)
SplitOn(s, c) ==
    IF Find(s, c) = -1 THEN <<s>>
    ELSE <<UpTo(s, Find(s, c))>> \o SplitOn(From(s, Find(s, c) + 1), c)

\* c.join(parts)
RECURSIVE JoinWith(_, _)
JoinWith(parts, c) ==
    IF Len(parts) = 0 THEN <<>>
    ELSE IF Len(parts) = 1 THEN parts[1]
    ELSE parts[1] \o <<c>> \o JoinWith(Tail(parts), c)

\* the code points of the characters the model uses (ASCII)
Ord(c) ==
    CASE c = "*" -> 42 [] c = "-" -> 45 [] c = "." -> 46 [] c = "/" -> 47
      [] c = "?" -> 63 [] c = "K" -> 75 [] c = "X" -> 88 [] c = "\\" -> 92
      [] c = "a" -> 97 [] c = "b" -> 98 [] c = "c" -> 99 [] c = "d" -> 100
      [] c = "f" -> 102 [] c = "g" -> 103 [] c = "h" -> 104 [] c = "k" -> 107
      [] c = "m" -> 109 [] c = "o" -> 111 [] c = "p" -> 112 [] c = "t" -> 116
      [] c = "x" -> 120 [] c = "z" -> 122 [] c = "~" -> 126
      [] OTHER -> 0

\* str.lower() on one character
LowerChar(c) == IF c = "K" THEN "k" ELSE IF c = "X" THEN "x" ELSE c

Lower(s) == [i \in 1..Len(s) |-> LowerChar(s[i])]

\* Python's ordering of str: lexicographic by code point
RECURSIVE StrLess(_, _)
StrLess(s, t) ==
    IF Len(t) = 0 THEN FALSE
    ELSE IF Len(s) = 0 THEN TRUE
    ELSE IF s[1] = t[1] THEN StrLess(Tail(s), Tail(t))
    ELSE Ord(s[1]) < Ord(t[1])

\* pattern in s (str.find(pattern) != -1)
Contains(s, pattern) ==
    \E i \in 0..Len(s) : StartsWith(From(s, i), pattern)

\* list.sort() of a list of distinct strings given as a set
RECURSIVE SortedSeq(_)
SortedSeq(S) ==
    IF S = {} THEN <<>>
    ELSE LET m == CHOOSE x \in S : \A y \in S \ {x} : StrLess(x, y)
         IN  <<m>> \o SortedSeq(S \ {m})

Range(q) == {q[i] : i \in 1..Len(q)}

\* ---------------------------------------------------------------------
\* The strings the model names
\* ---------------------------------------------------------------------

sDot == <<".">>
sDotDot == <<".", ".">>
sDotDotDot == <<".", ".", ".">>
sTilde == <<"~">>
sDash == <<"-">>
sTmp == <<"t", "m", "p">>
sSlash == <<"/">>
sK == <<"k">>
sKo == <<"k", "o">>
sKX == <<"k", "X">>
sUpperK == <<"K">>
sT == <<"t">>
sB == <<"b">>
sD == <<"d">>
sH == <<"h">>
sHx == <<"h", "x">>
sAb == <<"a", "b">>
sAbt == <<"a", "b", "t">>
sAc == <<"a", "c">>
sBo == <<"b", "o">>
sBf == <<"b", "f">>

\* ---------------------------------------------------------------------
\* The file system and os.path (posixpath)
\* ---------------------------------------------------------------------

\* A directory or file is named by the components of its absolute path.
\*   /  /h  /hx  /tmp  /d  /d/ab  /d/abt  /d/ac  /d/bo  /d/bo/t  /d/k  /d/k/b
\* and the regular file /d/bf; /g does not exist.
Dirs ==
    { <<>>, <<sH>>, <<sHx>>, <<sTmp>>, <<sD>>,
      <<sD, sAb>>, <<sD, sAbt>>, <<sD, sAc>>, <<sD, sBo>>, <<sD, sBo, sT>>,
      <<sD, sK>>, <<sD, sK, sB>> }

Files == { <<sD, sBf>> }

\* os.getcwd(): the working directory of every invocation is /d
Cwd == <<sD>>

CwdPath == <<"/", "d">>

\* the result of a failed path lookup (no directory has an empty component)
NoPath == << <<>> >>

\* Follow the components of a path from directory cur, as the kernel does:
\* every component, "", "." and ".." included, is looked up in a directory.
RECURSIVE ResolveFrom(_, _)
ResolveFrom(cur, comps) ==
    IF Len(comps) = 0 THEN cur
    ELSE IF cur \notin Dirs THEN NoPath
    ELSE LET c == Head(comps)
         IN  IF c = Empty \/ c = sDot THEN ResolveFrom(cur, Tail(comps))
             ELSE IF c = sDotDot
                  THEN ResolveFrom(IF Len(cur) = 0 THEN cur
                                   ELSE SubSeq(cur, 1, Len(cur) - 1), Tail(comps))
             ELSE IF Append(cur, c) \in Dirs \cup Files
                  THEN ResolveFrom(Append(cur, c), Tail(comps))
             ELSE NoPath

\* the directory or file a path string names, or NoPath
Resolve(p) ==
    IF p = Empty THEN NoPath
    ELSE ResolveFrom(IF p[1] = "/" THEN <<>> ELSE Cwd, SplitOn(p, "/"))

\* os.path.isdir
IsDir(p) == Resolve(p) \in Dirs

\* the names os.listdir(p) returns, for a p that is a directory
Entries(p) ==
    LET d == Resolve(p)
    IN  { x[Len(x)] : x \in { y \in Dirs \cup Files :
                                Len(y) = Len(d) + 1 /\ SubSeq(y, 1, Len(d)) = d } }

RECURSIVE Reverse(_)
Reverse(q) == IF Len(q) = 0 THEN <<>> ELSE Append(Reverse(Tail(q)), Head(q))

\* os.listdir returns the entries in arbitrary order: rev picks one of two
ListDir(p, rev) ==
    IF rev THEN Reverse(SortedSeq(Entries(p))) ELSE SortedSeq(Entries(p))

\* os.path.join(a, b)
Join(a, b) ==
    IF StartsWith(b, sSlash) THEN b
    ELSE IF a = Empty \/ EndsWith(a, sSlash) THEN a \o b
    ELSE a \o sSlash \o b

\* os.path.split(p): <<head, tail>>
Split(p) ==
    LET i == RFind(p, "/") + 1
        head == UpTo(p, i)
        tail == From(p, i)
    IN  IF head # Empty /\ RStrip(head, "/") # Empty
        THEN <<RStrip(head, "/"), tail>>
        ELSE <<head, tail>>

RECURSIVE NormComps(_, _, _)
NormComps(comps, new, initial) ==
    IF Len(comps) = 0 THEN new
    ELSE LET c == Head(comps)
         IN  IF c = Empty \/ c = sDot THEN NormComps(Tail(comps), new, initial)
             ELSE IF \/ c # sDotDot
                     \/ (initial = 0 /\ Len(new) = 0)
                     \/ (Len(new) > 0 /\ new[Len(new)] = sDotDot)
                  THEN NormComps(Tail(comps), Append(new, c), initial)
             ELSE IF Len(new) > 0
                  THEN NormComps(Tail(comps), SubSeq(new, 1, Len(new) - 1), initial)
             ELSE NormComps(Tail(comps), new, initial)

\* os.path.normpath
NormPath(p) ==
    IF p = Empty THEN sDot
    ELSE LET initial ==
                 IF ~StartsWith(p, sSlash) THEN 0
                 ELSE IF StartsWith(p, <<"/", "/">>) /\ ~StartsWith(p, <<"/", "/", "/">>)
                      THEN 2 ELSE 1
             body == JoinWith(NormComps(SplitOn(p, "/"), <<>>, initial), "/")
             res == [i \in 1..initial |-> "/"] \o body
         IN  IF res = Empty THEN sDot ELSE res

\* fnmatch.fnmatch(name, pat) for patterns over literals, "?" and "*"
RECURSIVE FnMatch(_, _)
FnMatch(name, pat) ==
    IF Len(pat) = 0 THEN Len(name) = 0
    ELSE IF pat[1] = "*"
         THEN FnMatch(name, Tail(pat)) \/ (Len(name) > 0 /\ FnMatch(Tail(name), pat))
    ELSE IF Len(name) = 0 THEN FALSE
    ELSE (pat[1] = "?" \/ pat[1] = name[1]) /\ FnMatch(Tail(name), Tail(pat))

\* ---------------------------------------------------------------------
\* Environment and persisted store
\* ---------------------------------------------------------------------

\* Python's None, where a value is None or a string
NoneValue == <<"<None>">>

\* the truth value Python gives a value that is None or a string
Truthy(v) == v # NoneValue /\ v # Empty

\* The process environments: HOME and OLDPWD as the calling shell set them.
\* HOME is an absolute path, a relative path, or unset.
Envs ==
    { [hasHome |-> TRUE, home |-> <<"/", "h">>, hasOld |-> TRUE, old |-> <<"/", "h">>],
      [hasHome |-> TRUE, home |-> sK, hasOld |-> FALSE, old |-> Empty],
      [hasHome |-> FALSE, home |-> Empty, hasOld |-> FALSE, old |-> Empty] }

\* the home directory of the password database, used when HOME is unset
PwHome == <<"/", "h">>

\* tempfile.gettempdir()
TempDir == <<"/", "t", "m", "p">>

\* A dict is a sequence of <<key, value>> pairs with distinct keys, in
\* insertion order.
DictHas(d, k) == \E i \in 1..Len(d) : d[i][1] = k

DictGet(d, k) == d[CHOOSE i \in 1..Len(d) : d[i][1] = k][2]

DictSet(d, k, v) ==
    IF DictHas(d, k)
    THEN [i \in 1..Len(d) |-> IF d[i][1] = k THEN <<k, v>> ELSE d[i]]
    ELSE Append(d, <<k, v>>)

DictKeys(d) == [i \in 1..Len(d) |-> d[i][1]]

RECURSIVE DictUpdate(_, _)
DictUpdate(d, pairs) ==
    IF Len(pairs) = 0 THEN d
    ELSE DictUpdate(DictSet(d, pairs[1][1], pairs[1][2]), Tail(pairs))

\* The shortcuts file: absent, a well-formed document whose <shortcut>
\* elements are entries (<<name, value>> in document order), or a file
\* that is not well-formed XML.
AbsentFile == [state |-> "absent", entries |-> <<>>]

\* a file whose content is not a well-formed document, of the given size
TornFile(size) == [state |-> "corrupt", entries |-> <<>>, size |-> size]

CorruptFile == TornFile(0)

OkFile(entries) == [state |-> "ok", entries |-> entries]

get_default_shortcuts(e) ==
    << <<sDot, sDot>>, <<sDotDot, sDotDot>>,
       <<sDotDotDot, <<".", ".", "/", ".", ".">> >>, <<sTmp, TempDir>> >>
    \o (IF e.hasHome THEN << <<sTilde, e.home>> >> ELSE <<>>)
    \o (IF e.hasOld THEN << <<sDash, e.old>> >> ELSE <<>>)

\* index of the first entry with the given name, or 0
FirstIndex(entries, name) ==
    IF \E i \in 1..Len(entries) : entries[i][1] = name
    THEN CHOOSE i \in 1..Len(entries) :
             entries[i][1] = name /\ \A j \in 1..(i - 1) : entries[j][1] # name
    ELSE 0

\* (variant: the last element is removed instead of the one found)
RemoveAtLast(q, i) == SubSeq(q, 1, Len(q) - 1)

RemoveAt(q, i) == SubSeq(q, 1, i - 1) \o SubSeq(q, i + 1, Len(q))

\* (variant: deleting a name that has no entry writes the document
\* instead of raising)
set_shortcut_no_raise(f, name, value) ==
    IF f.state = "corrupt" THEN [exc |-> "ExpatError", file |-> f]
    ELSE LET i == FirstIndex(f.entries, name)
         IN  IF i # 0
             THEN IF Truthy(value)
                  THEN [exc |-> "none",
                        file |-> OkFile([f.entries EXCEPT ![i] = <<name, value>>])]
                  ELSE [exc |-> "none", file |-> OkFile(RemoveAt(f.entries, i))]
             ELSE IF Truthy(value)
                  THEN [exc |-> "none", file |-> OkFile(Append(f.entries, <<name, value>>))]
                  ELSE [exc |-> "none", file |-> OkFile(f.entries)]

\* set_shortcut(name, value) on file f: the exception raised ("none" if
\* none) and the file afterwards
set_shortcut(f, name, value) ==
    IF f.state = "corrupt" THEN [exc |-> "ExpatError", file |-> f]
    ELSE LET i == FirstIndex(f.entries, name)
         IN  IF i # 0
             THEN IF Truthy(value)
                  THEN [exc |-> "none",
                        file |-> OkFile([f.entries EXCEPT ![i] = <<name, value>>])]
                  ELSE [exc |-> "none", file |-> OkFile(RemoveAt(f.entries, i))]
             ELSE IF Truthy(value)
                  THEN [exc |-> "none", file |-> OkFile(Append(f.entries, <<name, value>>))]
                  ELSE [exc |-> "GoError", file |-> f]

\* (variant: the defaults are put over the entries of the file)
get_shortcut_defaults_last(f, e) ==
    IF f.state = "corrupt" THEN [exc |-> "ExpatError", d |-> <<>>]
    ELSE [exc |-> "none", d |-> DictUpdate(f.entries, get_default_shortcuts(e))]

\* get_shortcut(): the exception raised and the dict returned
get_shortcut(f, e) ==
    IF f.state = "corrupt" THEN [exc |-> "ExpatError", d |-> <<>>]
    ELSE [exc |-> "none", d |-> DictUpdate(get_default_shortcuts(e), f.entries)]

\* ---------------------------------------------------------------------
\* Resolution
\* ---------------------------------------------------------------------

\* os.path.expanduser('~')
expanduser(e) ==
    LET userhome == RStrip(IF e.hasHome THEN e.home ELSE PwHome, "/")
    IN  IF userhome = Empty THEN sSlash ELSE userhome

\* PrefixLoop with the test the wrong way round (path.startswith(name))
RECURSIVE PrefixLoopSwapped(_, _, _)
PrefixLoopSwapped(path, names, ret) ==
    IF Len(names) = 0
    THEN IF Len(ret) = 1 THEN [kind |-> "name", name |-> ret[1], names |-> ret]
         ELSE IF Len(ret) = 0 THEN [kind |-> "none", name |-> Empty, names |-> ret]
         ELSE [kind |-> "ambiguous", name |-> Empty, names |-> ret]
    ELSE IF Head(names) = path
         THEN [kind |-> "name", name |-> Head(names), names |-> <<>>]
    ELSE IF StartsWith(path, Head(names))
         THEN PrefixLoopSwapped(path, Tail(names), Append(ret, Head(names)))
    ELSE PrefixLoopSwapped(path, Tail(names), ret)

\* PrefixLoop that settles for the first name that starts with path
RECURSIVE PrefixLoopFirst(_, _, _)
PrefixLoopFirst(path, names, ret) ==
    IF Len(names) = 0 THEN [kind |-> "none", name |-> Empty, names |-> ret]
    ELSE IF StartsWith(Head(names), path)
         THEN [kind |-> "name", name |-> Head(names), names |-> <<>>]
    ELSE PrefixLoopFirst(path, Tail(names), ret)

\* The loop of get_shortcut_prefix over the names, in the dict's order.
RECURSIVE PrefixLoop(_, _, _)
PrefixLoop(path, names, ret) ==
    IF Len(names) = 0
    THEN IF Len(ret) = 1 THEN [kind |-> "name", name |-> ret[1], names |-> ret]
         ELSE IF Len(ret) = 0 THEN [kind |-> "none", name |-> Empty, names |-> ret]
         ELSE [kind |-> "ambiguous", name |-> Empty, names |-> ret]
    ELSE IF Head(names) = path
         THEN [kind |-> "name", name |-> Head(names), names |-> <<>>]
    ELSE IF StartsWith(Head(names), path)
         THEN PrefixLoop(path, Tail(names), Append(ret, Head(names)))
    ELSE PrefixLoop(path, Tail(names), ret)

\* get_shortcut_prefix(path, shortcuts): kind "none" is the return value 0,
\* "name" a returned name, "ambiguous" the GoError and the names it lists
get_shortcut_prefix(path, shortcuts) ==
    IF path = Empty THEN [kind |-> "none", name |-> Empty, names |-> <<>>]
    ELSE PrefixLoop(path, DictKeys(shortcuts), <<>>)

\* The while loop of resolve_full_path that splits the suffix.
RECURSIVE SplitLoop(_, _, _)
SplitLoop(head, last_head, comps) ==
    IF head = last_head THEN comps
    ELSE SplitLoop(Split(head)[1], head, Append(comps, Split(head)[2]))

SuffixComps(suffix) == Reverse(SplitLoop(suffix, Empty, <<>>))

\* ScanDir without the test that the entry is a directory
RECURSIVE ScanDirAnyEntry(_, _, _, _)
ScanDirAnyEntry(path, comp, listing, found) ==
    IF Len(listing) = 0 THEN [kind |-> "done", found |-> found, second |-> Empty]
    ELSE IF FnMatch(Head(listing), comp \o <<"*">>)
         THEN IF found = Empty
              THEN ScanDirAnyEntry(path, comp, Tail(listing), Head(listing))
              ELSE [kind |-> "ambiguous", found |-> found, second |-> Head(listing)]
    ELSE ScanDirAnyEntry(path, comp, Tail(listing), found)

\* (variant: at the second match the error names the two entries the other
\* way round)
RECURSIVE ScanDirSwapped(_, _, _, _)
ScanDirSwapped(path, comp, listing, found) ==
    IF Len(listing) = 0 THEN [kind |-> "done", found |-> found, second |-> Empty]
    ELSE IF FnMatch(Head(listing), comp \o <<"*">>) /\ IsDir(Join(path, Head(listing)))
         THEN IF found = Empty
              THEN ScanDirSwapped(path, comp, Tail(listing), Head(listing))
              ELSE [kind |-> "ambiguous", found |-> Head(listing), second |-> found]
    ELSE ScanDirSwapped(path, comp, Tail(listing), found)

\* The scan of one directory listing for the entries that match comp + '*'
\* and are directories: the first match is kept, a second one raises.
RECURSIVE ScanDir(_, _, _, _)
ScanDir(path, comp, listing, found) ==
    IF Len(listing) = 0 THEN [kind |-> "done", found |-> found, second |-> Empty]
    ELSE IF FnMatch(Head(listing), comp \o <<"*">>) /\ IsDir(Join(path, Head(listing)))
         THEN IF found = Empty
              THEN ScanDir(path, comp, Tail(listing), Head(listing))
              ELSE [kind |-> "ambiguous", found |-> found, second |-> Head(listing)]
    ELSE ScanDir(path, comp, Tail(listing), found)

\* the result of a resolution: kind is "ok" or the error raised; steps lists,
\* for every component the walk looked at, the directory, the component and
\* what happened
Result(kind, path, names, dir, comp, steps) ==
    [kind |-> kind, path |-> path, names |-> names, dir |-> dir, comp |-> comp,
     steps |-> steps]

Step(dir, comp, out, next, names) ==
    [dir |-> dir, comp |-> comp, out |-> out, next |-> next, names |-> names]

\* The for loop of resolve_full_path over the components.
RECURSIVE WalkLoop(_, _, _, _, _)
WalkLoop(path, comps, prefix, rev, steps) ==
    IF Len(comps) = 0 THEN Result("ok", path, <<>>, Empty, Empty, steps)
    ELSE LET comp == Head(comps)
             tmp == Join(path, comp)
         IN  IF IsDir(tmp)
             THEN WalkLoop(tmp, Tail(comps), prefix, rev,
                           Append(steps, Step(path, comp, "exact", tmp, <<>>)))
             ELSE IF ~IsDir(path)
                  THEN Result("OSError", Empty, <<>>, path, comp,
                              Append(steps, Step(path, comp, "OSError", Empty, <<>>)))
             ELSE LET scan == ScanDir(path, comp, ListDir(path, rev), Empty)
                  IN  IF scan.kind = "ambiguous"
                      THEN Result("ambiguous_path", Empty, <<scan.found, scan.second>>,
                                  path, comp,
                                  Append(steps, Step(path, comp, "ambiguous", Empty,
                                                     <<scan.found, scan.second>>)))
                      ELSE IF scan.found = Empty
                      THEN Result("not_found", Empty, <<>>, path, comp,
                                  Append(steps, Step(path, comp, "not_found", Empty, <<>>)))
                      ELSE WalkLoop(Join(path, scan.found), Tail(comps), prefix, rev,
                                    Append(steps, Step(path, comp, "unique",
                                                       Join(path, scan.found), <<>>)))

resolve_full_path(prefix, suffix, rev) ==
    IF IsDir(Join(prefix, suffix))
    THEN Result("ok", Join(prefix, suffix), <<>>, Empty, Empty, <<>>)
    ELSE WalkLoop(NormPath(prefix), SuffixComps(suffix), prefix, rev, <<>>)

\* the end of resolve_path: walk the suffix if there is one
Finish(target, suffix, rev, branch) ==
    IF Truthy(suffix)
    THEN [res |-> resolve_full_path(target, suffix, rev), branch |-> branch,
          walked |-> TRUE, target |-> target, suffix |-> suffix]
    ELSE [res |-> Result("ok", target, <<>>, Empty, Empty, <<>>), branch |-> branch,
          walked |-> FALSE, target |-> target, suffix |-> suffix]

Raise(kind, names, branch) ==
    [res |-> Result(kind, Empty, names, Empty, Empty, <<>>), branch |-> branch,
     walked |-> FALSE, target |-> Empty, suffix |-> NoneValue]

\* the index at which resolve_path cuts the tag off: the first '/', or the
\* first '\' when there is no '/', or -1
TagEnd(path) == IF Find(path, "/") = -1 THEN Find(path, "\\") ELSE Find(path, "/")

\* TagOf with path[:tagend] taken also when no separator was found (tagend
\* is -1): the last character of the token is dropped
TagOfSliced(path) == IF TagEnd(path) = -1 THEN UpTo(path, Len(path) - 1) ELSE UpTo(path, TagEnd(path))

TagOf(path) == IF TagEnd(path) = -1 THEN path ELSE UpTo(path, TagEnd(path))

SuffixOf(path) == IF TagEnd(path) = -1 THEN NoneValue ELSE From(path, TagEnd(path) + 1)

\* (variant: the fallback walks the suffix cut off the token, not the token)
resolve_path_rest(path, f, e, rev) ==
    LET loaded == get_shortcut(f, e)
        shortcuts == loaded.d
        tag == TagOf(path)
        suffix == SuffixOf(path)
        home == expanduser(e)
    IN  IF loaded.exc # "none" THEN Raise(loaded.exc, <<>>, "load")
        ELSE IF path = Empty THEN Raise("no_path", <<>>, "empty")
        ELSE IF DictHas(shortcuts, tag)
             THEN Finish(DictGet(shortcuts, tag), suffix, rev, "shortcut")
        ELSE IF StartsWith(path, home) /\ path # home
             THEN IF DictHas(shortcuts, sTilde)
                  THEN Finish(DictGet(shortcuts, sTilde), From(path, Len(home) + 1),
                              rev, "home")
                  ELSE Raise("KeyError", <<>>, "home")
        ELSE LET pre == get_shortcut_prefix(tag, shortcuts)
             IN  IF pre.kind = "ambiguous"
                 THEN Raise("ambiguous_shortcut", pre.names, "prefix")
                 ELSE IF pre.kind = "name"
                 THEN Finish(DictGet(shortcuts, pre.name), suffix, rev, "prefix")
                 ELSE IF IsDir(path) THEN Finish(Empty, path, rev, "literal")
                 ELSE Finish(IF tag = Empty THEN sSlash
                             ELSE IF ~IsDir(tag) THEN sDot ELSE tag,
                             suffix, rev, "fallback")

\* resolve_path(path) with shortcuts file f, environment e and listing order
\* rev.  res is the directory returned or the exception raised; branch names
\* the branch of the lookup that chose the target, walked tells whether
\* resolve_full_path was called, with which target and suffix.
resolve_path(path, f, e, rev) ==
    LET loaded == get_shortcut(f, e)
        shortcuts == loaded.d
        tag == TagOf(path)
        suffix == SuffixOf(path)
        home == expanduser(e)
    IN  IF loaded.exc # "none" THEN Raise(loaded.exc, <<>>, "load")
        ELSE IF path = Empty THEN Raise("no_path", <<>>, "empty")
        ELSE IF DictHas(shortcuts, tag)
             THEN Finish(DictGet(shortcuts, tag), suffix, rev, "shortcut")
        ELSE IF StartsWith(path, home) /\ path # home
             THEN IF DictHas(shortcuts, sTilde)
                  THEN Finish(DictGet(shortcuts, sTilde), From(path, Len(home) + 1),
                              rev, "home")
                  ELSE Raise("KeyError", <<>>, "home")
        ELSE LET pre == get_shortcut_prefix(tag, shortcuts)
             IN  IF pre.kind = "ambiguous"
                 THEN Raise("ambiguous_shortcut", pre.names, "prefix")
                 ELSE IF pre.kind = "name"
                 THEN Finish(DictGet(shortcuts, pre.name), suffix, rev, "prefix")
                 ELSE IF IsDir(path) THEN Finish(Empty, path, rev, "literal")
                 ELSE Finish(IF tag = Empty THEN sSlash
                             ELSE IF ~IsDir(tag) THEN sDot ELSE tag,
                             path, rev, "fallback")

\* the kinds of result that are a GoError
GoErrors == {"no_path", "ambiguous_shortcut", "not_found", "ambiguous_path", "no_shortcut"}

\* ---------------------------------------------------------------------
\* Listing
\* ---------------------------------------------------------------------

\* re.search("^(" + "|".join(defaults) + ")$", shortcut): the names of the
\* default shortcuts are put into the pattern unescaped, where "." matches
\* any character; the other characters of the default names are literal
ReMatchOne(alt, name) ==
    Len(alt) = Len(name) /\ \A i \in 1..Len(alt) : alt[i] = "." \/ alt[i] = name[i]

ReSearchDefaults(defaults, name) ==
    \E i \in 1..Len(defaults) : ReMatchOne(defaults[i], name)

\* print_shortcuts(shortcuts): the names printed under each title, in the
\* order printed, and the directory printed for each name
print_shortcuts(shortcuts, e) ==
    LET defaults == DictKeys(get_default_shortcuts(e))
        names == Range(DictKeys(shortcuts))
    IN  [default |-> SortedSeq({n \in names : ReSearchDefaults(defaults, n)}),
         custom |-> SortedSeq({n \in names : ~ReSearchDefaults(defaults, n)}),
         dirs |-> shortcuts]

\* the filter of the list action: the entries whose lowered name contains
\* the pattern, in the dict's order
RECURSIVE MatchingShortcuts(_, _)
MatchingShortcuts(shortcuts, pattern) ==
    IF Len(shortcuts) = 0 THEN <<>>
    ELSE (IF Contains(Lower(Head(shortcuts)[1]), pattern) THEN <<Head(shortcuts)>> ELSE <<>>)
         \o MatchingShortcuts(Tail(shortcuts), pattern)

NoListing == [default |-> <<>>, custom |-> <<>>, dirs |-> <<>>]

\* ---------------------------------------------------------------------
\* The state and the invocations of main
\* ---------------------------------------------------------------------

\* the most entries the shortcuts file holds
MaxEntries == 2

\* the names, targets, tokens and patterns the invocations are given
Names == {Empty, sK, sKo, sKX, sTmp}

Targets == {<<"/", "d">>, <<"/", "g">>}

Tokens ==
    { Empty, sK, sKo, sT, sTmp, sDotDot, sDotDotDot,
      <<"k", "/", "b">>, <<"k", "o", "/", "b", "o">>, <<"k", "o", "/", "a">>,
      <<"k", "o", "/", "a", "b">>, <<"k", "o", "/", "c">>,
      <<"k", "o", "/", "b", "?">>, <<"k", "/", "b", "/", "t">>,
      <<"k", "X", "/", "a">>, <<"k", "\\", "b">>, <<"x">>, sAb, <<"/", "h", "x">>,
      <<"/", "h", "/", "x">>, <<"/", "d", "/", "b">> }

\* the tokens given to cd and to open
CdTokens == {Empty, sKo, <<"k", "/", "b">>, <<"k", "o", "/", "a">>, <<"x">>}

OpenTokens == {sKo, <<"k", "X", "/", "a">>}

Patterns == {sK, <<"X">>, <<"o">>}

VARIABLES
    file,      \* the shortcuts file
    env,       \* the environment of the invocations
    script,    \* the handoff script the shell sources
    last,      \* the last invocation: its arguments and what it did
    procs      \* the invocations that run at the same time in other shells

vars == <<file, env, script, last, procs>>

NoScript == [exists |-> FALSE, cd |-> FALSE, target |-> Empty]

\* generate_shell_script(script_name, path) once the target is known
ShellScript(target) == [exists |-> TRUE, cd |-> Truthy(target), target |-> target]

NoResolution == Raise("none", <<>>, "none")

\* ret is the value main returned, or -1 when an exception left main;
\* raised is that exception; err is the kind of the message written by
\* error(); out is the path written to standard output; overwrote tells
\* that the script the invocation found had a change-directory command
Last(action, args, ret, raised, err, out, resolution, listing, had) ==
    [action |-> action, args |-> args, ret |-> ret, raised |-> raised, err |-> err,
     out |-> out, resolution |-> resolution, listing |-> listing, had |-> had,
     overwrote |-> script.cd]

\* no invocation is running or has its result pending
NoLast ==
    [action |-> "none", args |-> <<>>, ret |-> 0, raised |-> "none", err |-> "none",
     out |-> NoneValue, resolution |-> NoResolution, listing |-> NoListing,
     had |-> FALSE, overwrote |-> FALSE]

\* The invocations of other shells, each a process of its own: what it was
\* asked, where it is in set_shortcut or get_shortcut, the document it is
\* about to write, the exception that ended it and the store it loaded.
Procs == {1, 2}

IdleProc ==
    [pc |-> "idle", kind |-> "none", name |-> Empty, value |-> NoneValue,
     doc |-> <<>>, exc |-> "none", seen |-> <<>>]

NoProcs == [p \in Procs |-> IdleProc]

\* the shell is at its prompt
Idle == last = NoLast

Init ==
    /\ file = AbsentFile
    /\ env \in Envs
    /\ script = NoScript
    /\ last = NoLast
    /\ procs = NoProcs

\* the branches of main for add, delete and set: set_shortcut(name, value)
Mutate(action, args, name, value) ==
    /\ Idle
    /\ \E r \in {set_shortcut(file, name, value)},
          had \in {file.state = "ok" /\ FirstIndex(file.entries, name) # 0} :
        /\ r.file.state = "ok" => Len(r.file.entries) <= MaxEntries
        /\ file' = r.file
        /\ script' = ShellScript(NoneValue)
        /\ last' = IF r.exc = "none"
                   THEN Last(action, args, 0, "none", "none", NoneValue,
                             NoResolution, NoListing, had)
                   ELSE IF r.exc = "GoError"
                   THEN Last(action, args, 1, "none", "no_shortcut", NoneValue,
                             NoResolution, NoListing, had)
                   ELSE Last(action, args, -1, r.exc, "none", NoneValue,
                             NoResolution, NoListing, had)
        /\ UNCHANGED <<env, procs>>

MainSet ==
    \E name \in Names, value \in Targets \cup {Empty} :
        Mutate("set", <<name, value>>, name, value)

MainAdd == \E name \in Names : Mutate("add", <<name>>, name, CwdPath)

MainDelete == \E name \in Names : Mutate("delete", <<name>>, name, NoneValue)

\* get_home_dir()
get_home_dir(e) == IF e.hasHome THEN e.home ELSE Empty

\* (variant: a cd that fails leaves the script as it found it)
CdKeepsScript(args, path, rev) ==
    /\ Idle
    /\ \E r \in {resolve_path(path, file, env, rev)} :
      \E k \in {r.res.kind} :
        /\ script' = IF k = "ok" THEN ShellScript(r.res.path) ELSE script
        /\ last' = IF k = "ok"
                   THEN Last("cd", args, 0, "none", "none", NoneValue, r, NoListing, FALSE)
                   ELSE IF k = "KeyError"
                   THEN Last("cd", args, 1, "none", "unrecognized", NoneValue, r,
                             NoListing, FALSE)
                   ELSE IF k \in GoErrors
                   THEN Last("cd", args, 1, "none", k, NoneValue, r, NoListing, FALSE)
                   ELSE Last("cd", args, -1, k, "none", NoneValue, r, NoListing, FALSE)
        /\ UNCHANGED <<file, env, procs>>

\* the branch of main for cd
Cd(args, path, rev) ==
    /\ Idle
    /\ \E r \in {resolve_path(path, file, env, rev)} :
      \E k \in {r.res.kind} :
        /\ script' = IF k = "ok" THEN ShellScript(r.res.path) ELSE ShellScript(NoneValue)
        /\ last' = IF k = "ok"
                   THEN Last("cd", args, 0, "none", "none", NoneValue, r, NoListing, FALSE)
                   ELSE IF k = "KeyError"
                   THEN Last("cd", args, 1, "none", "unrecognized", NoneValue, r,
                             NoListing, FALSE)
                   ELSE IF k \in GoErrors
                   THEN Last("cd", args, 1, "none", k, NoneValue, r, NoListing, FALSE)
                   ELSE Last("cd", args, -1, k, "none", NoneValue, r, NoListing, FALSE)
        /\ UNCHANGED <<file, env, procs>>

MainCd == \E path \in CdTokens, rev \in BOOLEAN : Cd(<<path>>, path, rev)

MainCdHome == \E rev \in BOOLEAN : Cd(<<>>, get_home_dir(env), rev)

\* the branch of main for print
MainPrint ==
    \E path \in Tokens, rev \in BOOLEAN :
        /\ Idle
        /\ \E r \in {resolve_path(path, file, env, rev)} :
          \E k \in {r.res.kind} :
            /\ script' = ShellScript(NoneValue)
            /\ last' = IF k = "ok"
                       THEN Last("print", <<path>>, 0, "none", "none", r.res.path, r,
                                 NoListing, FALSE)
                       ELSE IF k \in GoErrors
                       THEN Last("print", <<path>>, 1, "none", k, NoneValue, r,
                                 NoListing, FALSE)
                       ELSE Last("print", <<path>>, -1, k, "none", NoneValue, r,
                                 NoListing, FALSE)
            /\ UNCHANGED <<file, env, procs>>

\* the branch of main for list
List(args, filtered, pattern) ==
    /\ Idle
    /\ \E loaded \in {get_shortcut(file, env)} :
      \E shown \in {IF filtered THEN MatchingShortcuts(loaded.d, Lower(pattern))
                     ELSE loaded.d} :
        /\ script' = ShellScript(NoneValue)
        /\ last' = IF loaded.exc = "none"
                   THEN Last("list", args, 0, "none", "none", NoneValue, NoResolution,
                             print_shortcuts(shown, env), FALSE)
                   ELSE Last("list", args, -1, loaded.exc, "none", NoneValue,
                             NoResolution, NoListing, FALSE)
        /\ UNCHANGED <<file, env, procs>>

MainList == List(<<>>, FALSE, Empty)

MainListPattern == \E pattern \in Patterns : List(<<pattern>>, TRUE, pattern)

\* the branch of main for open; fileman tells whether the FILEMANAGER
\* variable is unset, names a program that is found, or one that is not
MainOpen ==
    \E path \in OpenTokens, rev \in BOOLEAN,
       fileman \in {"unset", "found", "missing"} :
        /\ Idle
        /\ \E r \in {resolve_path(path, file, env, rev)} :
          \E k \in {r.res.kind} :
            /\ script' = ShellScript(NoneValue)
            /\ last' = IF k = "ok"
                       THEN IF fileman = "missing"
                            THEN Last("open", <<path>>, 1, "none", "no_fileman", NoneValue,
                                      r, NoListing, FALSE)
                            ELSE IF fileman = "unset"
                            THEN Last("open", <<path>>, 0, "none", "no_fileman", NoneValue,
                                      r, NoListing, FALSE)
                            ELSE Last("open", <<path>>, 0, "none", "none", NoneValue,
                                      r, NoListing, FALSE)
                       ELSE IF k \in GoErrors
                       THEN Last("open", <<path>>, 1, "none", k, NoneValue, r,
                                 NoListing, FALSE)
                       ELSE Last("open", <<path>>, -1, k, "none", NoneValue, r,
                                 NoListing, FALSE)
            /\ UNCHANGED <<file, env, procs>>

\* an unknown option or a wrong number of arguments for the action
MainUsage ==
    /\ Idle
    /\ script' = ShellScript(NoneValue)
    /\ last' = Last("usage", <<>>, 1, "none", "usage", NoneValue, NoResolution,
                    NoListing, FALSE)
    /\ UNCHANGED <<file, env, procs>>

\* Outside the program: the shortcuts file is damaged, or removed.
CorruptStore ==
    /\ Idle
    /\ file.state # "corrupt"
    /\ file' = CorruptFile
    /\ UNCHANGED <<env, script, last, procs>>

RemoveStore ==
    /\ Idle
    /\ file.state # "absent"
    /\ file' = AbsentFile
    /\ UNCHANGED <<env, script, last, procs>>

\* The shell driver after python has exited: it sources the script and is
\* back at its prompt.  The model keeps the shell in the directory Cwd.
DriverReturn ==
    /\ ~Idle
    /\ last' = NoLast
    /\ UNCHANGED <<file, env, script, procs>>

Next ==
    \/ MainSet
    \/ MainAdd
    \/ MainDelete
    \/ MainCd
    \/ MainCdHome
    \/ MainPrint
    \/ MainList
    \/ MainListPattern
    \/ MainOpen
    \/ MainUsage
    \/ CorruptStore
    \/ RemoveStore
    \/ DriverReturn

Spec == Init /\ [][Next]_vars

\* ---------------------------------------------------------------------
\* Invocations that run at the same time
\* ---------------------------------------------------------------------

\* Two shells run go at the same time on the same shortcuts file.  Each
\* process takes the steps of set_shortcut or get_shortcut one system call
\* at a time; the directory of the file exists.

\* len(dom.toxml()): the declaration, the shortcuts element and one
\* shortcut element for each entry
RECURSIVE EntriesSize(_)
EntriesSize(entries) ==
    IF Len(entries) = 0 THEN 0
    ELSE 28 + Len(Head(entries)[1]) + Len(Head(entries)[2]) + EntriesSize(Tail(entries))

DocSize(entries) == IF Len(entries) = 0 THEN 48 ELSE 59 + EntriesSize(entries)

\* the size of the file
FileSize(f) ==
    IF f.state = "absent" THEN 0
    ELSE IF f.state = "ok" THEN DocSize(f.entries)
    ELSE f.size

\* the names and values the concurrent invocations are given
ConcNames == {sK, sKo, sTmp}

ConcValues == {<<"/", "d">>, <<"/", "g">>, NoneValue}

InitConc ==
    /\ file \in {AbsentFile, OkFile(<< <<sKo, <<"/", "d">> >> >>),
                 OkFile(<< <<sTmp, <<"/", "g">> >>, <<sKo, <<"/", "d">> >> >>)}
    /\ env \in Envs
    /\ script = NoScript
    /\ last = NoLast
    /\ procs = NoProcs

\* set_shortcut, first part: the file is parsed if it is there and the
\* element of the name is set, removed or appended in the document
SetParse(p) ==
    /\ procs[p].pc = "idle"
    /\ \E name \in ConcNames, value \in ConcValues :
         \E r \in {set_shortcut(file, name, value)} :
           procs' = [procs EXCEPT ![p] =
                        [pc |-> IF r.exc = "none" THEN "open" ELSE "done",
                         kind |-> "set", name |-> name, value |-> value,
                         doc |-> r.file.entries, exc |-> r.exc, seen |-> <<>>]]
    /\ UNCHANGED <<file, env, script, last>>

\* set_shortcut: open(shortcuts_xml, 'w') leaves the file empty
SetOpen(p) ==
    /\ procs[p].pc = "open"
    /\ file' = TornFile(0)
    /\ procs' = [procs EXCEPT ![p].pc = "write"]
    /\ UNCHANGED <<env, script, last>>

\* set_shortcut: fout.write(dom.toxml()) and the close of the file put the
\* document at the start of the file; what another process has written
\* beyond the end of the document since the open stays in the file
SetWrite(p) ==
    /\ procs[p].pc = "write"
    /\ file' = IF FileSize(file) <= DocSize(procs[p].doc)
               THEN OkFile(procs[p].doc)
               ELSE TornFile(FileSize(file))
    /\ procs' = [procs EXCEPT ![p].pc = "done"]
    /\ UNCHANGED <<env, script, last>>

\* get_shortcut by an invocation that only reads (list, print, cd, open)
Load(p) ==
    /\ procs[p].pc = "idle"
    /\ \E loaded \in {get_shortcut(file, env)} :
         procs' = [procs EXCEPT ![p] =
                      [pc |-> "done", kind |-> "load", name |-> Empty,
                       value |-> NoneValue, doc |-> <<>>, exc |-> loaded.exc,
                       seen |-> loaded.d]]
    /\ UNCHANGED <<file, env, script, last>>

NextConc ==
    \/ \E p \in Procs : SetParse(p)
    \/ \E p \in Procs : SetOpen(p)
    \/ \E p \in Procs : SetWrite(p)
    \/ \E p \in Procs : Load(p)

SpecConc == InitConc /\ [][NextConc]_vars

\* ---------------------------------------------------------------------
\* What the claims speak of
\* ---------------------------------------------------------------------

\* the store a load returns, said directly: the persisted entry of a name
\* if it has one, else the built-in shortcut of that name
HasPersisted(f, n) == f.state = "ok" /\ \E i \in 1..Len(f.entries) : f.entries[i][1] = n

PersistedValue(f, n) == f.entries[CHOOSE i \in 1..Len(f.entries) : f.entries[i][1] = n][2]

BuiltinNames(e) ==
    {sDot, sDotDot, sDotDotDot, sTmp}
    \cup (IF e.hasHome THEN {sTilde} ELSE {}) \cup (IF e.hasOld THEN {sDash} ELSE {})

BuiltinValue(e, n) ==
    CASE n = sDot -> <<".">>
      [] n = sDotDot -> <<".", ".">>
      [] n = sDotDotDot -> <<".", ".", "/", ".", ".">>
      [] n = sTmp -> <<"/", "t", "m", "p">>
      [] n = sTilde -> e.home
      [] n = sDash -> e.old
      [] OTHER -> Empty

AllNames == Names \cup {sDot, sDotDot, sDotDotDot, sTmp, sTilde, sDash}

StoreNames(f, e) ==
    IF f.state = "corrupt" THEN {}
    ELSE {n \in AllNames : HasPersisted(f, n) \/ n \in BuiltinNames(e)}

StoreValue(f, e, n) ==
    IF HasPersisted(f, n) THEN PersistedValue(f, n) ELSE BuiltinValue(e, n)

\* the last invocation resolved a token (cd, print or open with a token)
Resolved == last.action \in {"cd", "print", "open"} /\ Len(last.args) = 1

Token == last.args[1]

HasSeparator(t) == \E i \in 1..Len(t) : t[i] \in {"/", "\\"}

\* the head of a token, up to its first separator, and the rest after it
SepIndex(t) == CHOOSE i \in 1..Len(t) : t[i] \in {"/", "\\"} /\ \A j \in 1..(i - 1) : t[j] \notin {"/", "\\"}

HeadOf(t) == IF HasSeparator(t) THEN SubSeq(t, 1, SepIndex(t) - 1) ELSE t

RestOf(t) == IF HasSeparator(t) THEN SubSeq(t, SepIndex(t) + 1, Len(t)) ELSE Empty

\* the home directory of the environment
HomeDir(e) == IF e.hasHome THEN e.home ELSE PwHome

\* the token starts with the home directory and is longer than it
UnderHome(t, e) == StartsWith(t, HomeDir(e)) /\ t # HomeDir(e)

\* the shortcut names of the loaded store that start with h
NamesWithPrefix(f, e, h) == {n \in StoreNames(f, e) : StartsWith(n, h)}

\* the resolution returned the target as it is, without a sub-path walk
ReturnedTarget(target) ==
    /\ last.resolution.res.kind = "ok"
    /\ last.resolution.res.path = target
    /\ ~last.resolution.walked
    /\ last.resolution.res.steps = <<>>

\* the resolution is the sub-path walk of rest under target
WalkedUnder(target, rest) ==
    /\ last.resolution.walked
    /\ last.resolution.target = target
    /\ last.resolution.suffix = rest

\* C1 (as stated): a token without separator that equals a shortcut name of
\* the loaded store resolves to exactly that shortcut's target, with no
\* sub-path walk, however many other names start with it.
C1_Stated ==
    (Resolved /\ ~HasSeparator(Token) /\ Token \in StoreNames(file, env))
        => ReturnedTarget(StoreValue(file, env, Token))

\* C1 (amended): a non-empty token without separator that equals a shortcut
\* name of the loaded store resolves to exactly that shortcut's target, with
\* no sub-path walk, however many other names start with it; the empty token
\* is refused even when the empty string is a shortcut name.
C1_ExactName ==
    /\ (Resolved /\ Token # Empty /\ ~HasSeparator(Token) /\ Token \in StoreNames(file, env))
           => ReturnedTarget(StoreValue(file, env, Token))
    /\ (Resolved /\ Token = Empty /\ file.state # "corrupt")
           => last.resolution.res.kind = "no_path"

\* k and ko are both shortcut names with different targets and the token k
\* was resolved to the target of k
C1_Witness ==
    /\ last.action = "print"
    /\ Token = sK
    /\ {sK, sKo} \subseteq StoreNames(file, env)
    /\ StoreValue(file, env, sK) # StoreValue(file, env, sKo)
    /\ last.out = StoreValue(file, env, sK)

\* the head of the token is a non-empty proper prefix of exactly one
\* shortcut name of the loaded store and is not itself a shortcut name
UniquePrefix(t) ==
    /\ HeadOf(t) # Empty
    /\ HeadOf(t) \notin StoreNames(file, env)
    /\ Cardinality(NamesWithPrefix(file, env, HeadOf(t))) = 1

TheName(t) == CHOOSE n \in NamesWithPrefix(file, env, HeadOf(t)) : TRUE

\* what C2 says of a token whose head is a unique prefix
ResolvedAsName(t) ==
    IF RestOf(t) = Empty THEN ReturnedTarget(StoreValue(file, env, TheName(t)))
    ELSE WalkedUnder(StoreValue(file, env, TheName(t)), RestOf(t))

\* C2 (as stated): a token whose head is a non-empty proper prefix of exactly
\* one shortcut name s and is not a shortcut name resolves to the target of s,
\* or with a rest to the sub-path walk of the rest under the target of s.
C2_Stated ==
    (Resolved /\ UniquePrefix(Token)) => ResolvedAsName(Token)

\* C2 (amended): the same, for a token that does not start with the home
\* directory path followed by more characters; for such a token the
\* home-directory heuristic is applied first.
C2_UniquePrefix ==
    (Resolved /\ UniquePrefix(Token) /\ ~UnderHome(Token, env))
        => ResolvedAsName(Token)

\* k/b was resolved while ko was the only name starting with k, and the
\* result is the directory that ko/bo names
C2_Witness ==
    /\ last.action = "print"
    /\ Token = <<"k", "/", "b">>
    /\ UniquePrefix(Token)
    /\ TheName(Token) = sKo
    /\ StoreValue(file, env, sKo) = <<"/", "d">>
    /\ last.out = <<"/", "d", "/", "b", "o">>

\* the head of the token is a non-empty prefix of two or more shortcut
\* names and is not itself a shortcut name
AmbiguousPrefix(t) ==
    /\ HeadOf(t) # Empty
    /\ HeadOf(t) \notin StoreNames(file, env)
    /\ Cardinality(NamesWithPrefix(file, env, HeadOf(t))) >= 2

\* the resolution failed with the ambiguous-shortcut error listing exactly
\* the names that start with the head
AmbiguousShortcutError(t) ==
    /\ last.resolution.res.kind = "ambiguous_shortcut"
    /\ Range(last.resolution.res.names) = NamesWithPrefix(file, env, HeadOf(t))
    /\ Len(last.resolution.res.names) = Cardinality(NamesWithPrefix(file, env, HeadOf(t)))
    /\ last.resolution.res.path = Empty
    /\ last.out = NoneValue
    /\ last.ret = 1

\* C3 (as stated): if the head of the token is a non-empty prefix of two or
\* more shortcut names and not a shortcut name, the resolution fails with the
\* ambiguous-shortcut error that lists exactly those names, and returns no
\* directory.
C3_Stated ==
    (Resolved /\ AmbiguousPrefix(Token)) => AmbiguousShortcutError(Token)

\* C3 (amended): the same, for a token that does not start with the home
\* directory path followed by more characters.
C3_Ambiguous ==
    (Resolved /\ AmbiguousPrefix(Token) /\ ~UnderHome(Token, env))
        => AmbiguousShortcutError(Token)

\* k was resolved while ko and kX were shortcut names and k was not
C3_Witness ==
    /\ last.action = "print"
    /\ Token = sK
    /\ NamesWithPrefix(file, env, sK) = {sKo, sKX}
    /\ last.err = "ambiguous_shortcut"

\* the steps of the sub-path walk of the last resolution
Steps == last.resolution.res.steps

\* the entries of directory dir that are directories and whose name starts
\* with the component
StartingWith(dir, comp) ==
    {n \in Entries(dir) : StartsWith(n, comp) /\ IsDir(Join(dir, n))}

\* the entries of directory dir that are directories and whose name matches
\* the glob pattern component + "*"
Globbing(dir, comp) ==
    {n \in Entries(dir) : FnMatch(n, comp \o <<"*">>) /\ IsDir(Join(dir, n))}

\* what the walk does with one component at an existing directory, M being
\* the set of candidate entries
StepFollows(st, M) ==
    IF IsDir(Join(st.dir, st.comp))
    THEN st.out = "exact" /\ st.next = Join(st.dir, st.comp)
    ELSE /\ Cardinality(M) = 0 => st.out = "not_found"
         /\ Cardinality(M) = 1 => st.out = "unique" /\ st.next = Join(st.dir, CHOOSE n \in M : TRUE)
         /\ Cardinality(M) >= 2 => st.out = "ambiguous" /\ Range(st.names) \subseteq M

\* the steps follow one another, the walk stops at the first failure, and
\* its result is where the last step arrived
StepsChain ==
    /\ \A i \in 1..(Len(Steps) - 1) :
           Steps[i].out \in {"exact", "unique"} /\ Steps[i + 1].dir = Steps[i].next
    /\ Len(Steps) > 0 =>
           LET final == Steps[Len(Steps)]
           IN  /\ final.out \in {"exact", "unique"} =>
                      last.resolution.res.kind = "ok" /\ last.resolution.res.path = final.next
               /\ final.out = "not_found" => last.resolution.res.kind = "not_found"
               /\ final.out = "ambiguous" => last.resolution.res.kind = "ambiguous_path"

\* C4 (as stated): in the sub-path walk, at current directory P and for
\* component c: if P/c is an existing directory the walk descends into it;
\* otherwise, with M the entries of P that are directories and whose name
\* starts with c, it fails with not-found when M is empty, descends into the
\* single member when M has one, and fails with ambiguous-path when M has
\* two or more; entries that are not directories never count.
C4_Stated ==
    Resolved =>
        /\ \A i \in 1..Len(Steps) :
               IsDir(Steps[i].dir) => StepFollows(Steps[i], StartingWith(Steps[i].dir, Steps[i].comp))
        /\ StepsChain

\* C4 (amended): the same with M the entries of P that are directories and
\* whose name matches the glob pattern c + "*" (for a component without the
\* glob characters "*", "?" and "[": whose name starts with c), P being an
\* existing directory.
C4_WalkStep ==
    Resolved =>
        /\ \A i \in 1..Len(Steps) :
               IsDir(Steps[i].dir) => StepFollows(Steps[i], Globbing(Steps[i].dir, Steps[i].comp))
        /\ StepsChain

\* ko/b was walked under /d, where b matches the directory bo and the file
\* bf: the walk descended into bo
C4_Witness ==
    /\ Resolved
    /\ \E i \in 1..Len(Steps) :
           /\ Steps[i].comp = sB
           /\ sBf \in Entries(Steps[i].dir)
           /\ Steps[i].out = "unique"
           /\ Steps[i].next = <<"/", "d", "/", "b", "o">>

\* the store a fresh load returns from file f
Loaded(f) == get_shortcut(f, env).d

\* the names that have an entry in file f
PersistedNames(f) == {n \in AllNames : HasPersisted(f, n)}

\* C5 (as stated): for every name x and every target string D,
\* set_shortcut(x, D) is an upsert: a fresh load after it returns a store in
\* which x maps to D, whether or not x existed before, and every other
\* persisted name keeps its previous target.
C5_Stated ==
    [][(last'.action = "set" /\ file.state # "corrupt") =>
           LET x == last'.args[1]
               D == last'.args[2]
           IN  /\ get_shortcut(file', env).exc = "none"
               /\ DictHas(Loaded(file'), x)
               /\ DictGet(Loaded(file'), x) = D
               /\ \A n \in PersistedNames(file) \ {x} :
                      /\ HasPersisted(file', n)
                      /\ DictGet(Loaded(file'), n) = PersistedValue(file, n)]_vars

\* what a successful delete of x leaves of the other names: each name of the
\* store loaded before is in the store loaded after, with the same target
OthersKeep(x) ==
    \A n \in StoreNames(file, env) \ {x} :
        /\ DictHas(Loaded(file'), n)
        /\ DictGet(Loaded(file'), n) = StoreValue(file, env, n)

\* C6 (as stated): for every name x that has a persisted entry, a successful
\* delete of x followed by a fresh load yields a store that does not contain
\* x, and all other names keep their targets.
C6_Stated ==
    [][(last'.action = "delete" /\ last'.ret = 0) =>
           /\ HasPersisted(file, last'.args[1])
           /\ ~DictHas(Loaded(file'), last'.args[1])
           /\ OthersKeep(last'.args[1])]_vars

\* C6 (amended): for every name x that has a persisted entry, a successful
\* delete of x followed by a fresh load yields a store without a persisted
\* entry for x: x is absent from it unless x is a built-in name, and then x
\* maps to its built-in value again; all other names keep their targets.
C6_DeleteRoundTrip ==
    [][(last'.action = "delete" /\ last'.ret = 0) =>
           LET x == last'.args[1]
           IN  /\ HasPersisted(file, x)
               /\ ~HasPersisted(file', x)
               /\ DictHas(Loaded(file'), x) <=> x \in BuiltinNames(env)
               /\ x \in BuiltinNames(env) =>
                      DictGet(Loaded(file'), x) = BuiltinValue(env, x)
               /\ OthersKeep(x)]_vars

\* tmp had a persisted entry and was deleted while ko keeps its entry: the
\* load gives tmp its built-in value again
C6_Witness ==
    /\ last.action = "delete"
    /\ last.ret = 0
    /\ last.args = <<sTmp>>
    /\ last.had
    /\ HasPersisted(file, sKo)
    /\ ~HasPersisted(file, sTmp)
    /\ DictGet(Loaded(file), sTmp) = TempDir

\* C7: deleting a name that has no entry in the shortcuts file (a built-in
\* name that was never overridden included) fails with the GoError
\* 'shortcut does not exist', reported by main with exit code 1, and leaves
\* the shortcuts file exactly as it was: nothing is written or created.
C7_DeleteAbsent ==
    [][(last'.action = "delete" /\ file.state # "corrupt"
            /\ ~HasPersisted(file, last'.args[1])) =>
           /\ last'.ret = 1
           /\ last'.err = "no_shortcut"
           /\ last'.raised = "none"
           /\ file' = file]_vars

\* the delete of the built-in name tmp, never overridden, has failed and
\* the shortcuts file is still absent
C7_Witness ==
    /\ last.action = "delete"
    /\ last.args = <<sTmp>>
    /\ ~last.had
    /\ last.ret = 1
    /\ last.err = "no_shortcut"
    /\ file = AbsentFile

\* C8: the loaded store is the built-in defaults overlaid by the persisted
\* entries: every built-in name ('.', '..', '...', 'tmp', and '~' and '-' when
\* the environment provides them) is in the loaded store, also when the
\* shortcuts file is absent or has no entries, with the value of its
\* persisted entry if it has one and its built-in value otherwise; so the
\* token '..' resolves to the parent-directory path and '...' to the
\* grandparent path.
C8_DefaultsOverlaid ==
    file.state # "corrupt" =>
        /\ get_shortcut(file, env).exc = "none"
        /\ \A n \in BuiltinNames(env) :
               /\ DictHas(Loaded(file), n)
               /\ DictGet(Loaded(file), n) =
                      IF HasPersisted(file, n) THEN PersistedValue(file, n)
                      ELSE BuiltinValue(env, n)
        /\ \A n \in PersistedNames(file) :
               DictGet(Loaded(file), n) = PersistedValue(file, n)
        /\ (Resolved /\ Token = sDotDot /\ ~HasPersisted(file, sDotDot)) =>
               ReturnedTarget(<<".", ".">>)
        /\ (Resolved /\ Token = sDotDotDot /\ ~HasPersisted(file, sDotDotDot)) =>
               ReturnedTarget(<<".", ".", "/", ".", ".">>)

\* tmp has a persisted entry for a directory other than the temporary
\* directory, the token tmp was printed as that directory, and '..' is
\* still in the loaded store
C8_Witness ==
    /\ last.action = "print"
    /\ Token = sTmp
    /\ HasPersisted(file, sTmp)
    /\ PersistedValue(file, sTmp) # TempDir
    /\ last.out = PersistedValue(file, sTmp)
    /\ DictGet(Loaded(file), sDotDot) = <<".", ".">>

\* C9 (as stated): every invocation of main ends with exit code 0 on success
\* and 1 on any resolution or argument error: no exception leaves main, and
\* an invocation whose resolution or store access failed wrote an error
\* message and returned 1.
C9_Stated ==
    last.action # "none" =>
        /\ last.raised = "none"
        /\ last.ret \in {0, 1}
        /\ (last.resolution.res.kind \notin {"none", "ok"}) =>
               (last.ret = 1 /\ last.err # "none")
        /\ (last.action \in {"set", "add", "delete", "list"} /\ file.state = "corrupt") =>
               (last.ret = 1 /\ last.err # "none")

\* the names a listing is to show: all names of the loaded store, or with a
\* pattern those that contain it as a case-insensitive substring
Shown ==
    IF last.args = <<>> THEN StoreNames(file, env)
    ELSE {n \in StoreNames(file, env) : Contains(Lower(n), Lower(last.args[1]))}

\* C10 (as stated): a listing shows under 'Default shortcuts' exactly the
\* shown names that are built-in names and under 'Custom shortcuts' exactly
\* the other shown names, each group sorted by name; with a pattern exactly
\* the names that contain it as a case-insensitive substring are shown.
C10_Stated ==
    (last.action = "list" /\ last.ret = 0) =>
        /\ last.listing.default = SortedSeq(Shown \cap BuiltinNames(env))
        /\ last.listing.custom = SortedSeq(Shown \ BuiltinNames(env))

\* a process has finished its invocation
Done(p) == procs[p].pc = "done"

\* C11 (as stated): while one invocation sets or deletes a shortcut, no load
\* or mutation by the other invocation finds an empty, truncated or
\* unparsable file, and when two concurrent set or delete invocations have
\* finished the shortcuts file is the document that one of them wrote.
C11_Stated ==
    /\ \A p \in Procs : Done(p) => procs[p].exc \in {"none", "GoError"}
    /\ (\A p \in Procs : Done(p) /\ procs[p].kind = "set" /\ procs[p].exc = "none") =>
           /\ file.state = "ok"
           /\ \E p \in Procs : file.entries = procs[p].doc

\* a step in which an invocation of main runs from its start to its end
Invocation == Idle /\ last'.action # "none"

\* the invocation of the step is a cd whose resolution succeeded
CdSucceeded == last'.action = "cd" /\ last'.resolution.res.kind = "ok"

\* C12: every invocation overwrites the handoff script, whatever it held:
\* when the invocation has finished the script has a change-directory
\* command only if the invocation was a cd whose resolution succeeded, and
\* the command then targets the directory that invocation resolved; after
\* any other invocation the script is the no-op script, so a command left by
\* an earlier invocation never survives.
C12_ScriptOverwritten ==
    [][Invocation =>
           /\ script'.exists
           /\ script'.cd =>
                  /\ CdSucceeded
                  /\ last'.ret = 0
                  /\ script'.target = last'.resolution.res.path
           /\ CdSucceeded => script' = ShellScript(last'.resolution.res.path)
           /\ ~CdSucceeded => script' = ShellScript(NoneValue)]_vars

\* a cd that failed found a script with a change-directory command and
\* has left the no-op script
C12_Witness ==
    /\ last.action = "cd"
    /\ last.ret = 1
    /\ last.overwrote
    /\ script.exists
    /\ ~script.cd

\* the resolution failed with the ambiguous-path error
AmbiguousPathError == Resolved /\ last.resolution.res.kind = "ambiguous_path"

\* the directory searched, the component and the names of the error
ErrDir == last.resolution.res.dir

ErrComp == last.resolution.res.comp

ErrNames == last.resolution.res.names

\* the matching entries of the directory searched in the order of a listing
MatchesInOrder(rev) ==
    SelectSeq(ListDir(ErrDir, rev), LAMBDA n : n \in Globbing(ErrDir, ErrComp))

WalkUnderMissingDir ==
    /\ Resolved
    /\ last.resolution.walked
    /\ \E i \in 1..Len(Steps) : ~IsDir(Steps[i].dir)

\* C14 (as stated): a shortcut whose target directory does not exist is
\* tolerated by the load and by a resolution without sub-path, which returns
\* the target; a sub-path walk under a directory that does not exist reports
\* the path-not-found GoError, which main reports with exit code 1, and
\* never fails in another way.
C14_Stated ==
    /\ (Resolved /\ ~HasSeparator(Token) /\ Token # Empty
            /\ Token \in StoreNames(file, env)
            /\ ~IsDir(StoreValue(file, env, Token))) =>
           ReturnedTarget(StoreValue(file, env, Token))
    /\ WalkUnderMissingDir =>
           /\ last.resolution.res.kind = "not_found"
           /\ last.raised = "none"
           /\ last.ret = 1

\* the token comes to the fallback of resolve_path: its head is not a
\* shortcut name, the token is not under the home directory, the head is not
\* a prefix of a shortcut name, and the token is not an existing directory
InFallback(t) ==
    /\ file.state # "corrupt"
    /\ t # Empty
    /\ HeadOf(t) \notin StoreNames(file, env)
    /\ ~UnderHome(t, env)
    /\ HeadOf(t) = Empty \/ NamesWithPrefix(file, env, HeadOf(t)) = {}
    /\ ~IsDir(t)

\* the target of the fallback: the head, the path separator for an empty
\* head, '.' for a head that is not an existing directory
FallbackTarget(t) ==
    IF HeadOf(t) = Empty THEN <<"/">>
    ELSE IF IsDir(HeadOf(t)) THEN HeadOf(t) ELSE <<".">>

\* C15 (as stated): in the fallback the target becomes the head, or the
\* path separator if the head is empty, or '.' if the head is not an existing
\* directory, the rest stays the part of the token after the first
\* separator, and the result is the sub-path walk of that rest under that
\* target.
C15_Stated ==
    (Resolved /\ InFallback(Token)) =>
        /\ last.resolution.branch = "fallback"
        /\ last.resolution.target = FallbackTarget(Token)
        /\ IF HasSeparator(Token) /\ RestOf(Token) # Empty
           THEN WalkedUnder(FallbackTarget(Token), RestOf(Token))
           ELSE ReturnedTarget(FallbackTarget(Token))

\* C15 (amended): in the fallback the target becomes the head, or the path
\* separator if the head is empty, or '.' if the head is not an existing
\* directory, and the rest becomes the whole token, head included; the
\* result is the sub-path walk of the whole token under that target.
C15_Fallback ==
    (Resolved /\ InFallback(Token)) =>
        /\ last.resolution.branch = "fallback"
        /\ WalkedUnder(FallbackTarget(Token), Token)
        /\ \E rev \in BOOLEAN :
               last.resolution.res = resolve_full_path(FallbackTarget(Token), Token, rev)

\* k/b/t came to the fallback with k an existing directory and no shortcut
\* name starting with k: k/b/t was walked under k and b was not found there
C15_Witness ==
    /\ last.action = "print"
    /\ Token = <<"k", "/", "b", "/", "t">>
    /\ InFallback(Token)
    /\ last.resolution.target = sK
    /\ last.resolution.suffix = Token
    /\ last.resolution.res.kind = "not_found"

\* C16 (as stated): a token whose head is not a shortcut name and which
\* starts with the home directory path and is longer than it is resolved as
\* '~' with the rest after the home directory prefix, before the prefix
\* resolution and the literal-directory check: the result is the sub-path
\* walk of that rest under the target of '~', so a token that names an
\* existing directory resolves to that same directory.
C16_Stated ==
    (Resolved /\ file.state # "corrupt" /\ HeadOf(Token) \notin StoreNames(file, env)
         /\ UnderHome(Token, env)) =>
        /\ last.resolution.branch = "home"
        /\ last.resolution.target = StoreValue(file, env, sTilde)
        /\ last.raised = "none"
        /\ IsDir(Token) =>
               /\ last.resolution.res.kind = "ok"
               /\ Resolve(last.resolution.res.path) = Resolve(Token)

\* file f holds at most one entry for each name, and so does the store a
\* load returns
OneEntryPerName(f) ==
    /\ \A i, j \in 1..Len(f.entries) : f.entries[i][1] = f.entries[j][1] => i = j
    /\ \A i, j \in 1..Len(Loaded(f)) : Loaded(f)[i][1] = Loaded(f)[j][1] => i = j

\* the target the invocation of the step gave to the name it set or added
GivenTarget == IF last'.action = "set" THEN last'.args[2] ELSE CwdPath

\* C17 (as stated): after any sequence of set, add and delete the shortcuts
\* file holds at most one entry for each name; a name that is in the loaded
\* store after a successful set or add of it maps to the target that
\* invocation gave, the entries of the other names are as they were, and a
\* successful delete removes the entry of its name only; the invocations that
\* only read (cd, print, list, open) leave the shortcuts file unchanged.
C17_Stated ==
    [][Invocation =>
           /\ OneEntryPerName(file')
           /\ (last'.action \in {"set", "add"} /\ last'.ret = 0
                   /\ DictHas(Loaded(file'), last'.args[1])) =>
                  DictGet(Loaded(file'), last'.args[1]) = GivenTarget
           /\ (last'.action \in {"set", "add", "delete"} /\ last'.ret = 0) =>
                  \A n \in AllNames \ {last'.args[1]} :
                      /\ HasPersisted(file', n) <=> HasPersisted(file, n)
                      /\ HasPersisted(file, n) =>
                             PersistedValue(file', n) = PersistedValue(file, n)
           /\ (last'.action = "delete" /\ last'.ret = 0) =>
                  ~HasPersisted(file', last'.args[1])
           /\ (last'.action \in {"cd", "print", "list", "open", "usage"}
                   \/ last'.ret # 0) => file' = file]_vars

====
